---- MODULE Spec2Model ----
(***************************************************************************)
(* Rule engine and turn state machine of the chess server:                 *)
(*   server/gamemodes/chess.py  (class Chess)                              *)
(*   server/models.py           (Game, Piece, GameState, TurnCounter)      *)
(*   server/events/games.py     (move, offer_draw, claim_draw, resign)     *)
(*   server/timing.py           (Timer)                                    *)
(*                                                                         *)
(* The database is an abstract store: the Piece table is the set `pieces`, *)
(* the GameState table the sequence `states`, the Game row the remaining   *)
(* variables.  A Python call either returns or raises; an operator that    *)
(* models a call yields the set of its possible outcomes, T, F or R        *)
(* (raised), because rows of a select() without order_by come back in an   *)
(* order the database chooses.                                             *)
(***************************************************************************)
EXTENDS Integers, Sequences, FiniteSets, TLC

T == "true"
F == "false"
R == "raise"

Sides == {"HOME", "AWAY"}

\* models.Side.__invert__
Side_invert(side) == IF side = "HOME" THEN "AWAY" ELSE "HOME"

\* models.Side.forwards
forwards(side) == IF side = "HOME" THEN 1 ELSE -1

Abs(x) == IF x < 0 THEN -x ELSE x
Max(a, b) == IF a >= b THEN a ELSE b

\* Three-valued negation of a set of outcomes: `not f()` where f may raise.
Not(outcomes) == {IF o = T THEN F ELSE IF o = F THEN T ELSE R : o \in outcomes}

\* A row of models.Piece.
Piece(id, piece_type, rank, file, side) ==
    [id |-> id, piece_type |-> piece_type, rank |-> rank, file |-> file,
     side |-> side, has_moved |-> FALSE, first_move_last_turn |-> FALSE]

\* Python's None where a Piece is expected.
NoPiece ==
    [id |-> 0, piece_type |-> "NONE", rank |-> -1, file |-> -1,
     side |-> "NONE", has_moved |-> FALSE, first_move_last_turn |-> FALSE]

back_row ==
    <<"ROOK", "KNIGHT", "BISHOP", "QUEEN", "KING", "BISHOP", "KNIGHT", "ROOK">>

\* Chess.layout_board: ids follow the order of the Piece.create calls.
layout_board ==
    {Piece(2 * file + 1, back_row[file + 1], 0, file, "HOME") : file \in 0..7}
    \cup {Piece(2 * file + 2, back_row[file + 1], 7, file, "AWAY") : file \in 0..7}
    \cup {Piece(16 + 2 * file + 1, "PAWN", 1, file, "HOME") : file \in 0..7}
    \cup {Piece(16 + 2 * file + 2, "PAWN", 6, file, "AWAY") : file \in 0..7}

\* Chess.get_piece on the Piece table P: the row on the square, or None.
get_piece(P, rank, file) ==
    LET here == {p \in P : p.rank = rank /\ p.file = file}
    IN  IF here = {} THEN NoPiece
        ELSE CHOOSE p \in here : \A q \in here : p.id <= q.id

\* Chess.on_board
on_board(rank, file) == rank >= 0 /\ rank <= 7 /\ file >= 0 /\ file <= 7

\* Chess.path_is_empty: the intermediate squares of the walk are scanned,
\* then victim.side is read even when the destination holds no piece
\* (AttributeError on None).  `//` is floor division, as \div is.
path_is_empty(P, piece, rank, file) ==
    LET file_delta == file - piece.file
        rank_delta == rank - piece.rank
        steps == Max(Abs(file_delta), Abs(rank_delta))
        file_step == file_delta \div steps
        rank_step == rank_delta \div steps
        victim == get_piece(P, rank, file)
    IN  IF \E step \in 1..(steps - 1) :
              get_piece(P, piece.rank + step * rank_step,
                        piece.file + step * file_step) # NoPiece
        THEN F
        ELSE IF victim = NoPiece THEN R
        ELSE IF victim.side # piece.side THEN T ELSE F

\* A validate_pawn_move that lets a pawn take en passant whenever an enemy
\* piece stands beside it, first_move_last_turn or not.
validate_pawn_move_any_time(P, pawn, rank, file) ==
    LET absolute_file_delta == Abs(file - pawn.file)
        relative_rank_delta == forwards(pawn.side) * (rank - pawn.rank)
        victim == get_piece(P, rank, file)
        en_passant_pawn == get_piece(P, pawn.rank, file)
        en_passant_valid ==
            /\ en_passant_pawn # NoPiece
            /\ en_passant_pawn.side # pawn.side
            /\ pawn.rank = (IF pawn.side = "HOME" THEN 4 ELSE 3)
    IN  IF relative_rank_delta = 1
        THEN IF absolute_file_delta = 0
             THEN (IF victim = NoPiece THEN T ELSE F)
             ELSE IF absolute_file_delta = 1
             THEN (IF (victim # NoPiece /\ victim.side # pawn.side)
                      \/ en_passant_valid THEN T ELSE F)
             ELSE F
        ELSE IF relative_rank_delta = 2
        THEN IF absolute_file_delta # 0 THEN F
             ELSE IF pawn.has_moved THEN F
             ELSE IF get_piece(P, rank, file) # NoPiece
                     \/ get_piece(P, rank, file - forwards(pawn.side)) # NoPiece
                  THEN F ELSE T
        ELSE F

\* Chess.validate_pawn_move
validate_pawn_move(P, pawn, rank, file) ==
    LET absolute_file_delta == Abs(file - pawn.file)
        relative_rank_delta == forwards(pawn.side) * (rank - pawn.rank)
        victim == get_piece(P, rank, file)
        en_passant_pawn == get_piece(P, pawn.rank, file)
        en_passant_valid ==
            /\ en_passant_pawn # NoPiece
            /\ en_passant_pawn.side # pawn.side
            /\ en_passant_pawn.first_move_last_turn
            /\ pawn.rank = (IF pawn.side = "HOME" THEN 4 ELSE 3)
    IN  IF relative_rank_delta = 1
        THEN IF absolute_file_delta = 0
             THEN (IF victim = NoPiece THEN T ELSE F)
             ELSE IF absolute_file_delta = 1
             THEN (IF (victim # NoPiece /\ victim.side # pawn.side)
                      \/ en_passant_valid THEN T ELSE F)
             ELSE F
        ELSE IF relative_rank_delta = 2
        THEN IF absolute_file_delta # 0 THEN F
             ELSE IF pawn.has_moved THEN F
             ELSE IF get_piece(P, rank, file) # NoPiece
                     \/ get_piece(P, rank, file - forwards(pawn.side)) # NoPiece
                  THEN F ELSE T
        ELSE F

\* Chess.validate_rook_move: rank_delta is taken against rook.file.
validate_rook_move(P, rook, rank, file) ==
    LET file_delta == file - rook.file
        rank_delta == rank - rook.file
    IN  IF file_delta # 0 /\ rank_delta # 0 THEN F
        ELSE path_is_empty(P, rook, rank, file)

\* Chess.validate_knight_move
validate_knight_move(P, knight, rank, file) ==
    LET absolute_file_delta == Abs(file - knight.file)
        absolute_rank_delta == Abs(rank - knight.rank)
        victim == get_piece(P, rank, file)
    IN  IF <<absolute_file_delta, absolute_rank_delta>> \notin {<<1, 2>>, <<2, 1>>}
        THEN F
        ELSE IF victim = NoPiece \/ victim.side # knight.side THEN T ELSE F

\* Chess.validate_bishop_move
validate_bishop_move(P, bishop, rank, file) ==
    IF Abs(file - bishop.file) # Abs(rank - bishop.rank) THEN F
    ELSE path_is_empty(P, bishop, rank, file)

\* Chess.validate_queen_move
validate_queen_move(P, queen, rank, file) ==
    LET absolute_file_delta == Abs(file - queen.file)
        absolute_rank_delta == Abs(rank - queen.rank)
        bishops_move == absolute_file_delta = absolute_rank_delta
        rooks_move == (absolute_file_delta # 0) # (absolute_rank_delta # 0)
    IN  IF ~(bishops_move \/ rooks_move) THEN F
        ELSE path_is_empty(P, queen, rank, file)

\* The castling table of Chess.validate_king_move, by destination file.
rook_start(file) == IF file = 2 THEN 0 ELSE 7
rook_end(file) == IF file = 2 THEN 3 ELSE 5
empty_files(file) == IF file = 2 THEN {1, 2, 3} ELSE {5, 6}

RECURSIVE hypothetical_check(_, _, _)
RECURSIVE validate_move(_, _, _, _, _, _, _)

\* Chess.validate_king_move.  The castling branch is entered by every move
\* along the rank of a king that has not moved; it returns False as soon as
\* one of empty_files holds no piece, and asks hypothetical_check last.
validate_king_move(P, king, rank, file, in_check_call) ==
    LET absolute_file_delta == Abs(file - king.file)
        absolute_rank_delta == Abs(rank - king.rank)
        rook == get_piece(P, rank, rook_start(file))
    IN  IF absolute_rank_delta = 0 /\ ~king.has_moved
        THEN IF file \notin {2, 6} THEN {F}
             ELSE IF rook = NoPiece \/ rook.has_moved THEN {F}
             ELSE IF \E empty_file \in empty_files(file) :
                        get_piece(P, rank, empty_file) = NoPiece
                  THEN {F}
             ELSE Not(hypothetical_check(P, king.side, in_check_call))
        ELSE IF absolute_file_delta > 1 \/ absolute_rank_delta > 1 THEN {F}
        ELSE {T}

\* The validators table of Chess.validate_move.
validators(P, piece, rank, file, in_check_call) ==
    CASE piece.piece_type = "PAWN" -> {validate_pawn_move(P, piece, rank, file)}
      [] piece.piece_type = "ROOK" -> {validate_rook_move(P, piece, rank, file)}
      [] piece.piece_type = "KNIGHT" -> {validate_knight_move(P, piece, rank, file)}
      [] piece.piece_type = "BISHOP" -> {validate_bishop_move(P, piece, rank, file)}
      [] piece.piece_type = "QUEEN" -> {validate_queen_move(P, piece, rank, file)}
      [] piece.piece_type = "KING" ->
            validate_king_move(P, piece, rank, file, in_check_call)

\* Chess.validate_move.  in_check_call is TRUE while self.hypothetical_moves
\* is not None, that is inside a running hypothetical_check.
validate_move(P, start_rank, start_file, end_rank, end_file, check_allowed, in_check_call) ==
    LET piece == get_piece(P, start_rank, start_file)
    IN  IF start_file = end_file /\ start_rank = end_rank THEN {F}
        ELSE IF piece = NoPiece THEN {F}
        ELSE IF ~on_board(end_rank, end_file) THEN {F}
        ELSE UNION {
               IF valid = R THEN {R}
               ELSE IF valid = F THEN {F}
               ELSE IF check_allowed THEN {T}
               ELSE Not(hypothetical_check(P, piece.side, in_check_call))
               : valid \in validators(P, piece, end_rank, end_file, in_check_call)}

\* Chess.hypothetical_check.  The moves handed in are stored and never read
\* (get_piece does not observe them), so only P and side decide the result.
\* Every enemy is looked up with rank and file exchanged:
\* validate_move(enemy.file, enemy.rank, king.file, king.rank).  The loop
\* returns True at the first enemy whose move validates and raises at the
\* first whose validation raises, whichever row the database returns first.
hypothetical_check(P, side, in_check_call) ==
    LET kings == {p \in P : p.side = side /\ p.piece_type = "KING"}
        king == CHOOSE p \in kings : \A q \in kings : p.id <= q.id
        enemies == {p \in P : p.side = Side_invert(side)}
        checks == UNION {validate_move(P, enemy.file, enemy.rank, king.file,
                                       king.rank, TRUE, TRUE) : enemy \in enemies}
    IN  IF in_check_call THEN {R}
        ELSE IF kings = {} THEN {R}
        ELSE IF checks \subseteq {F} THEN {F}
        ELSE checks \ {F}

(***************************************************************************)
(* The rules the specification states (sections 4.2 to 4.4), on a Piece    *)
(* table P.  They say what "attacked" and "legal" mean in the properties   *)
(* and supply the repository code that src/ does not hold (make_move,      *)
(* get_allowed_castling).                                                  *)
(***************************************************************************)

Sign(x) == IF x > 0 THEN 1 ELSE IF x < 0 THEN -1 ELSE 0

\* Path tracing: every square strictly between source and destination empty.
path_clear(P, piece, rank, file) ==
    LET steps == Max(Abs(rank - piece.rank), Abs(file - piece.file))
    IN  \A step \in 1..(steps - 1) :
            get_piece(P, piece.rank + step * Sign(rank - piece.rank),
                      piece.file + step * Sign(file - piece.file)) = NoPiece

\* is_legal_geometry (4.2) without castling: shape and occupancy of a move.
is_legal_geometry(P, piece, rank, file) ==
    LET dr == rank - piece.rank
        df == file - piece.file
        forward == forwards(piece.side) * dr
        victim == get_piece(P, rank, file)
        beside == get_piece(P, piece.rank, file)
        straight == (dr = 0) # (df = 0)
        diagonal == Abs(dr) = Abs(df) /\ dr # 0
    IN  /\ on_board(rank, file)
        /\ (dr # 0 \/ df # 0)
        /\ (victim = NoPiece \/ victim.side # piece.side)
        /\ CASE piece.piece_type = "PAWN" ->
                   \/ forward = 1 /\ df = 0 /\ victim = NoPiece
                   \/ /\ forward = 2 /\ df = 0 /\ ~piece.has_moved
                      /\ victim = NoPiece
                      /\ get_piece(P, piece.rank + forwards(piece.side), file) = NoPiece
                   \/ /\ forward = 1 /\ Abs(df) = 1
                      /\ \/ victim # NoPiece
                         \/ /\ beside # NoPiece
                            /\ beside.side # piece.side
                            /\ beside.piece_type = "PAWN"
                            /\ beside.first_move_last_turn
             [] piece.piece_type = "ROOK" ->
                   straight /\ path_clear(P, piece, rank, file)
             [] piece.piece_type = "BISHOP" ->
                   diagonal /\ path_clear(P, piece, rank, file)
             [] piece.piece_type = "QUEEN" ->
                   (straight \/ diagonal) /\ path_clear(P, piece, rank, file)
             [] piece.piece_type = "KNIGHT" ->
                   <<Abs(dr), Abs(df)>> \in {<<1, 2>>, <<2, 1>>}
             [] piece.piece_type = "KING" -> Abs(dr) <= 1 /\ Abs(df) <= 1

\* Some piece of the other side has a geometry-legal move onto the square.
square_attacked(P, side, rank, file) ==
    LET target == Piece(99, "KING", rank, file, side)
        Q == {p \in P : p.rank # rank \/ p.file # file} \cup {target}
    IN  \E enemy \in P :
            /\ enemy.side = Side_invert(side)
            /\ (enemy.rank # rank \/ enemy.file # file)
            /\ is_legal_geometry(Q, enemy, rank, file)

\* king_is_attacked (4.3)
king_is_attacked(P, side) ==
    \E king \in P :
        /\ king.side = side /\ king.piece_type = "KING"
        /\ square_attacked(P, side, king.rank, king.file)

\* Castling geometry (4.2): king and rook never moved, the squares between
\* them empty, the king's start, transit and destination not attacked.
castling_geometry(P, king, rank, file) ==
    LET rook == get_piece(P, rank, rook_start(file))
        lo == IF file = 2 THEN 1 ELSE 5
        hi == IF file = 2 THEN 3 ELSE 6
        walk == IF file = 2 THEN {2, 3, 4} ELSE {4, 5, 6}
    IN  /\ king.piece_type = "KING" /\ ~king.has_moved
        /\ rank = king.rank /\ king.file = 4 /\ file \in {2, 6}
        /\ rook # NoPiece /\ rook.piece_type = "ROOK"
        /\ rook.side = king.side /\ ~rook.has_moved
        /\ \A f \in lo..hi : get_piece(P, rank, f) = NoPiece
        /\ \A f \in walk :
               ~square_attacked({p \in P : p.id # king.id}, king.side, rank, f)

\* get_allowed_castling is called by freeze_game and defined nowhere under
\* src/: the rooks the king may castle with (CastlingRights, section 3).
get_allowed_castling(P, king) ==
    {get_piece(P, king.rank, rook_start(file)) :
        file \in {f \in {2, 6} : castling_geometry(P, king, king.rank, f)}}

\* The board side of apply_move, steps 3 and 4: the piece on the
\* destination is taken, the rook follows a castling king, the pawn passed
\* en passant is removed, a pawn on the far rank takes the promotion type,
\* and first_move_last_turn is cleared everywhere but on a pawn that has
\* just advanced two squares.
is_castling(piece, rank, file) ==
    piece.piece_type = "KING" /\ rank = piece.rank /\ Abs(file - piece.file) = 2

is_en_passant(P, piece, rank, file) ==
    /\ piece.piece_type = "PAWN" /\ file # piece.file
    /\ get_piece(P, rank, file) = NoPiece

is_capture(P, piece, rank, file) ==
    get_piece(P, rank, file) # NoPiece \/ is_en_passant(P, piece, rank, file)

far_rank(side) == IF side = "HOME" THEN 7 ELSE 0

is_promotion(piece, rank) ==
    piece.piece_type = "PAWN" /\ rank = far_rank(piece.side)

\* An execution of a move that leaves the rook of a castling king where it
\* stands.
execute_move_king_alone(P, piece, rank, file, promotion) ==
    LET moved == [piece EXCEPT
                    !.rank = rank, !.file = file, !.has_moved = TRUE,
                    !.first_move_last_turn =
                        (piece.piece_type = "PAWN" /\ Abs(rank - piece.rank) = 2),
                    !.piece_type = IF is_promotion(piece, rank)
                                   THEN promotion ELSE piece.piece_type]
        gone == {p \in P :
                    \/ p.id = piece.id
                    \/ p.rank = rank /\ p.file = file
                    \/ /\ is_en_passant(P, piece, rank, file)
                       /\ p.rank = piece.rank /\ p.file = file}
    IN  {[p EXCEPT !.first_move_last_turn = FALSE] : p \in P \ gone}
        \cup {moved}

execute_move(P, piece, rank, file, promotion) ==
    LET rook == IF is_castling(piece, rank, file)
                THEN get_piece(P, rank, rook_start(file)) ELSE NoPiece
        moved == [piece EXCEPT
                    !.rank = rank, !.file = file, !.has_moved = TRUE,
                    !.first_move_last_turn =
                        (piece.piece_type = "PAWN" /\ Abs(rank - piece.rank) = 2),
                    !.piece_type = IF is_promotion(piece, rank)
                                   THEN promotion ELSE piece.piece_type]
        castled == IF rook = NoPiece \/ rook.id = piece.id THEN {}
                   ELSE {[rook EXCEPT !.file = rook_end(file), !.has_moved = TRUE,
                                      !.first_move_last_turn = FALSE]}
        gone == {p \in P :
                    \/ p.id = piece.id
                    \/ p.id = rook.id
                    \/ p.rank = rank /\ p.file = file
                    \/ castled # {} /\ p.rank = rank /\ p.file = rook_end(file)
                    \/ /\ is_en_passant(P, piece, rank, file)
                       /\ p.rank = piece.rank /\ p.file = file}
    IN  {[p EXCEPT !.first_move_last_turn = FALSE] : p \in P \ gone}
        \cup {moved} \cup castled

\* move_would_expose_check (4.3): the mover's king is attacked on the board
\* as it is after the move.
move_would_expose_check(P, piece, rank, file) ==
    king_is_attacked(execute_move(P, piece, rank, file, "QUEEN"), piece.side)

\* legal_moves_for (4.4) as <<piece id, rank, file>>.
legal_moves_for(P, side) ==
    {<<piece.id, rank, file>> : piece \in {p \in P : p.side = side},
                                 rank \in 0..7, file \in 0..7} \cap
    {m \in (1..32) \X (0..7) \X (0..7) :
        \E piece \in P :
            /\ piece.id = m[1] /\ piece.side = side
            /\ \/ is_legal_geometry(P, piece, m[2], m[3])
               \/ castling_geometry(P, piece, m[2], m[3])
            /\ ~move_would_expose_check(P, piece, m[2], m[3])}

(***************************************************************************)
(* Chess.freeze_game                                                       *)
(***************************************************************************)

\* str(models.Piece.rank) and str(models.Piece.file): the field objects of
\* the model class, not the values of the row.  The same two texts for
\* every piece ("<SmallIntegerField: Piece.rank>"), written short here.
RankFieldStr == "<Piece.rank>"
FileFieldStr == "<Piece.file>"

abbrev(piece) ==
    IF piece.piece_type = "KNIGHT"
    THEN (IF piece.side = "HOME" THEN "N" ELSE "n")
    ELSE CASE piece.piece_type = "PAWN" -> "P"
           [] piece.piece_type = "ROOK" -> "R"
           [] piece.piece_type = "BISHOP" -> "B"
           [] piece.piece_type = "QUEEN" -> "Q"
           [] piece.piece_type = "KING" -> "K"

\* A key that also records which pieces have moved.
piece_arrangement_with_has_moved(piece, castleable_rooks) ==
    abbrev(piece) \o RankFieldStr \o FileFieldStr \o
    (IF piece.has_moved THEN "M" ELSE "") \o
    (IF piece.piece_type = "PAWN"
     THEN (IF piece.first_move_last_turn THEN "X" ELSE "")
     ELSE IF piece.piece_type = "ROOK"
     THEN (IF piece.id \in castleable_rooks THEN "X" ELSE "")
     ELSE "")

piece_arrangement(piece, castleable_rooks) ==
    abbrev(piece) \o RankFieldStr \o FileFieldStr \o
    (IF piece.piece_type = "PAWN"
     THEN (IF piece.first_move_last_turn THEN "X" ELSE "")
     ELSE IF piece.piece_type = "ROOK"
     THEN (IF piece.id \in castleable_rooks THEN "X" ELSE "")
     ELSE "")

\* The rows in order_by(rank, file) from rank `rank` on; the execution of a
\* move leaves at most one piece on a square.
RECURSIVE arrangement_from(_, _, _)
arrangement_from(P, castleable_rooks, rank) ==
    IF rank > 7 THEN ""
    ELSE LET row == {p \in P : p.rank = rank}
             at(file) == {p \in row : p.file = file}
             text(file) == IF at(file) = {} THEN ""
                           ELSE piece_arrangement(CHOOSE p \in at(file) : TRUE,
                                                  castleable_rooks)
         IN  (IF row = {} THEN ""
              ELSE text(0) \o text(1) \o text(2) \o text(3) \o
                   text(4) \o text(5) \o text(6) \o text(7))
             \o arrangement_from(P, castleable_rooks, rank + 1)

\* Chess.freeze_game: R when Piece.get finds no king of a side.
freeze_game(P) ==
    LET kings == {p \in P : p.piece_type = "KING"}
        castleable_rooks ==
            {rook.id : rook \in UNION {get_allowed_castling(P, king) : king \in kings}}
    IN  IF \E side \in Sides : \A king \in kings : king.side # side THEN R
        ELSE arrangement_from(P, castleable_rooks, 0)

(***************************************************************************)
(* The move generators of Chess.  A generator yields moves until it raises *)
(* or ends: it is the record of the moves it can yield and whether it can  *)
(* raise.                                                                  *)
(***************************************************************************)

yielded(moves, raises) == [moves |-> moves, raises |-> raises]

\* Chess.get_moves_in_direction.  The first square of the walk that is
\* empty or held by the other side reads piece.Side, which a Piece does
\* not have (AttributeError); a friendly piece or the edge ends the walk.
get_moves_in_direction(P, piece, rank_direction, file_direction) ==
    LET rank == piece.rank + rank_direction
        file == piece.file + file_direction
        target == get_piece(P, rank, file)
    IN  yielded({}, /\ on_board(rank, file)
                    /\ (target = NoPiece \/ target.side # piece.side))

\* The generators of the sliding pieces over their directions.
moves_in_directions(P, piece, directions) ==
    yielded(UNION {get_moves_in_direction(P, piece, d[1], d[2]).moves
                   : d \in directions},
            \E d \in directions :
                get_moves_in_direction(P, piece, d[1], d[2]).raises)

\* Chess.get_rook_moves
get_rook_moves(P, rook) ==
    moves_in_directions(P, rook, {<<-1, 0>>, <<1, 0>>, <<0, -1>>, <<0, 1>>})

\* Chess.get_bishop_moves
get_bishop_moves(P, bishop) ==
    moves_in_directions(P, bishop, {<<-1, -1>>, <<-1, 1>>, <<1, -1>>, <<1, 1>>})

\* Chess.get_queen_moves
get_queen_moves(P, queen) ==
    moves_in_directions(P, queen,
                        ((-1..1) \X (-1..1)) \ {<<0, 0>>})

\* Chess.get_pawn_moves: a move is yielded when hypothetical_check is
\* true (the `not` is missing).
get_pawn_moves(P, pawn) ==
    LET options == {<<1, 0>>, <<2, 0>>, <<1, -1>>, <<1, 1>>}
        targets == {<<pawn.rank + o[1] * forwards(pawn.side), pawn.file + o[2]>>
                    : o \in options}
        valid == {t \in targets : /\ on_board(t[1], t[2])
                                  /\ validate_pawn_move(P, pawn, t[1], t[2]) = T}
        check == hypothetical_check(P, pawn.side, FALSE)
    IN  yielded(IF T \in check THEN valid ELSE {},
                valid # {} /\ R \in check)

\* Chess.get_knight_moves: no on_board test, and the first target that is
\* empty or held by the other side calls hypothetical_check(knight, rank,
\* file), whose query compares Piece.side with a Piece (TypeError).
get_knight_moves(P, knight) ==
    LET targets == {<<knight.rank + a[1] * rank_direction,
                      knight.file + a[2] * file_direction>>
                    : a \in {<<1, 2>>, <<2, 1>>},
                      rank_direction \in {-1, 1}, file_direction \in {-1, 1}}
    IN  yielded({}, \E t \in targets :
                        LET victim == get_piece(P, t[1], t[2])
                        IN  victim = NoPiece \/ victim.side # knight.side)

\* A get_king_moves without the on_board test.
get_king_moves_without_on_board(P, king) ==
    LET targets == {t \in ((-1..1) \X (-1..1)) \ {<<0, 0>>} :
                       LET victim == get_piece(P, king.rank + t[1],
                                               king.file + t[2])
                       IN  victim = NoPiece \/ victim.side # king.side}
        check == hypothetical_check(P, king.side, FALSE)
    IN  yielded(IF F \in check
                THEN {<<king.rank + t[1], king.file + t[2]>> : t \in targets}
                ELSE {},
                targets # {} /\ R \in check)

\* Chess.get_king_moves: the one-step moves, then validate_king_move for
\* the two castling files with the result dropped.
get_king_moves(P, king) ==
    LET targets == {t \in ((-1..1) \X (-1..1)) \ {<<0, 0>>} :
                       LET rank == king.rank + t[1]
                           file == king.file + t[2]
                           victim == get_piece(P, rank, file)
                       IN  /\ on_board(file, rank)
                           /\ (victim = NoPiece \/ victim.side # king.side)}
        check == hypothetical_check(P, king.side, FALSE)
    IN  yielded(IF F \in check
                THEN {<<king.rank + t[1], king.file + t[2]>> : t \in targets}
                ELSE {},
                \/ targets # {} /\ R \in check
                \/ /\ ~king.has_moved
                   /\ \E file_direction \in {-2, 2} :
                          R \in validate_king_move(P, king, king.rank,
                                                   king.file + file_direction,
                                                   FALSE))

\* The move_generators table of Chess.possible_moves.
move_generators(P, piece) ==
    CASE piece.piece_type = "PAWN" -> get_pawn_moves(P, piece)
      [] piece.piece_type = "ROOK" -> get_rook_moves(P, piece)
      [] piece.piece_type = "KNIGHT" -> get_knight_moves(P, piece)
      [] piece.piece_type = "BISHOP" -> get_bishop_moves(P, piece)
      [] piece.piece_type = "QUEEN" -> get_queen_moves(P, piece)
      [] piece.piece_type = "KING" -> get_king_moves(P, piece)

\* Chess.possible_moves as <<piece id, rank, file>>: what the generators
\* of the side's pieces yield and hypothetical_check does not reject.
\* Whether a move is yielded before another piece's generator raises
\* depends on the order of the rows.
possible_moves(P, side) ==
    LET mine == {p \in P : p.side = side}
        check == hypothetical_check(P, side, FALSE)
    IN  yielded(IF F \in check
                THEN UNION {{<<piece.id, m[1], m[2]>>
                             : m \in move_generators(P, piece).moves}
                            : piece \in mine}
                ELSE {},
                \E piece \in mine :
                    \/ move_generators(P, piece).raises
                    \/ move_generators(P, piece).moves # {} /\ R \in check)

\* Chess.game_is_over on the GameState table S at turn number turn.
\* GameState.get raises DoesNotExist when the turn has no row; the
\* fifty-move test compares the TurnCounter with an int, which TurnCounter
\* does not support (TypeError), so only a threefold repetition returns.
game_is_over(S, turn) ==
    LET current == {i \in DOMAIN S : S[i].turn_number = turn}
        current_state == S[CHOOSE i \in current : TRUE]
        identical_states ==
            {i \in DOMAIN S : S[i].arrangement = current_state.arrangement}
    IN  IF current = {} THEN {R}
        ELSE IF Cardinality(identical_states) >= 3
        THEN {"THREEFOLD_REPETITION"}
        ELSE {R}

(***************************************************************************)
(* The game: models.Game, models.TurnCounter, timing.Timer and the socket  *)
(* event handlers of events/games.py.                                      *)
(***************************************************************************)

\* Bounds of the model: the turn number up to which moves are played in
\* Spec, in SpecPlay and in SpecFixture, and the longest turn in clock
\* ticks.
MaxTurn == 3
MaxPlayTurn == 8
MaxFixtureTurn == 3
MaxElapsed == 2

\* The time controls of the game in clock ticks (fields of models.Game,
\* chosen when the game is created).
main_thinking_time == 3
fixed_extra_time == 1
time_increment_per_turn == 1

Conclusions ==
    {"GAME_NOT_COMPLETE", "CHECKMATE", "RESIGN", "TIME", "STALEMATE",
     "THREEFOLD_REPETITION", "FIFTY_MOVE_RULE", "AGREED_DRAW"}

PromotionTypes == {"ROOK", "KNIGHT", "BISHOP", "QUEEN"}

\* The payload of a `move` event (test_client Game.make_move).
move_data(start_rank, start_file, end_rank, end_file) ==
    [start_rank |-> start_rank, start_file |-> start_file,
     end_rank |-> end_rank, end_file |-> end_file, promotion |-> "NONE"]

\* The same payload with a promotion field: a piece type or none.
PromotionRequests == PromotionTypes \cup {"NONE", "PAWN", "KING"}

promotion_data(data, promotion) == [data EXCEPT !.promotion = promotion]

\* The move events the players send in Spec and SpecPlay.
MoveRequests ==
    { move_data(0, 1, 2, 2), move_data(2, 2, 4, 3),      \* Nb1-c3, Nc3-d5
      move_data(4, 3, 6, 2), move_data(6, 2, 7, 4),      \* Nd5xc7, Nc7xe8
      move_data(1, 2, 3, 2), move_data(3, 2, 4, 2),      \* c2-c4, c4-c5
      move_data(4, 2, 5, 3),                             \* c5xd6
      move_data(1, 0, 2, 0), move_data(1, 7, 2, 7),      \* a2-a3, h2-h3
      move_data(0, 4, 0, 6),                             \* Ke1-g1
      move_data(0, 3, 2, 3),                             \* Qd1-d3
      move_data(6, 3, 4, 3), move_data(6, 0, 5, 0),      \* d7-d5, a7-a6
      move_data(7, 1, 5, 2), move_data(5, 2, 3, 1),      \* Nb8-c6, Nc6-b4
      move_data(3, 1, 2, 3) }                            \* Nb4-d3

VARIABLES
    pieces,                  \* the Piece table of the game
    states,                  \* the GameState table of the game, in creation order
    positions,               \* history: the position each GameState row was made of
    current_turn,            \* Game.current_turn
    turn_number,             \* Game._turn_number
    last_kill_or_pawn_move,  \* Game.last_kill_or_pawn_move
    home_time,               \* Game.home_time
    away_time,               \* Game.away_time
    home_offering_draw,      \* Game.home_offering_draw
    away_offering_draw,      \* Game.away_offering_draw
    winner,                  \* Game.winner
    conclusion_type          \* Game.conclusion_type

\* The legally relevant state of a position (PositionKey, section 3):
\* which piece type of which side stands on which square, the side to
\* move, the rooks that may still castle and the pawn that may be taken
\* en passant.
placement(P) ==
    {[piece_type |-> p.piece_type, side |-> p.side,
      rank |-> p.rank, file |-> p.file] : p \in P}

castling_rights(P) ==
    {<<rook.rank, rook.file>> :
        rook \in UNION {get_allowed_castling(P, king) :
                           king \in {p \in P : p.piece_type = "KING"}}}

en_passant_state(P) ==
    {<<p.rank, p.file>> : p \in {q \in P : q.first_move_last_turn}}

legal_state(P, turn) ==
    [placement |-> placement(P), current_turn |-> turn,
     castling_rights |-> castling_rights(P),
     en_passant_state |-> en_passant_state(P)]

game_row ==
    <<current_turn, turn_number, last_kill_or_pawn_move, home_time, away_time,
      home_offering_draw, away_offering_draw, winner, conclusion_type>>

vars == <<pieces, states, positions, game_row>>

\* A make_move that applies a pawn's move onto its far rank whatever the
\* promotion field holds, the pawn staying a pawn when it names no
\* promotion type.
make_move_any_promotion(P, data) ==
    LET piece == get_piece(P, data.start_rank, data.start_file)
        refused(ret) == [ret |-> ret, pieces |-> P, irreversible |-> FALSE]
    IN  { IF valid # T THEN refused(valid)
          ELSE [ret |-> T,
                pieces |-> execute_move(P, piece, data.end_rank, data.end_file,
                                        IF data.promotion \in PromotionTypes
                                        THEN data.promotion ELSE "PAWN"),
                irreversible |-> \/ piece.piece_type = "PAWN"
                                 \/ is_capture(P, piece, data.end_rank,
                                               data.end_file)]
          : valid \in validate_move(P, data.start_rank, data.start_file,
                                    data.end_rank, data.end_file, FALSE, FALSE) }

\* Chess.make_move is called by the move handler and defined nowhere under
\* src/.  It is taken to accept what Chess.validate_move accepts and to
\* carry out steps 3 to 5 of apply_move.  Outcomes: ret is T, F or R.
make_move(P, data) ==
    LET piece == get_piece(P, data.start_rank, data.start_file)
        refused(ret) == [ret |-> ret, pieces |-> P, irreversible |-> FALSE]
    IN  { IF valid # T THEN refused(valid)
          ELSE IF is_promotion(piece, data.end_rank)
                  /\ data.promotion \notin PromotionTypes
          THEN refused(F)
          ELSE [ret |-> T,
                pieces |-> execute_move(P, piece, data.end_rank, data.end_file,
                                        data.promotion),
                irreversible |-> \/ piece.piece_type = "PAWN"
                                 \/ is_capture(P, piece, data.end_rank,
                                               data.end_file)]
          : valid \in validate_move(P, data.start_rank, data.start_file,
                                    data.end_rank, data.end_file, FALSE, FALSE) }

\* Game.__init__, which runs whenever a handler loads the game: home_time
\* and away_time are set to main_thinking_time, whatever the row held.
Game_init ==
    [home_time |-> main_thinking_time, away_time |-> main_thinking_time]

\* A clock that charges the whole turn, fixed_extra_time included.
turn_end_without_extra_time(game, side, elapsed) ==
    LET timer_delta == time_increment_per_turn - elapsed
    IN  [home_time |-> game.home_time
                       + (IF side = "HOME" THEN timer_delta ELSE 0),
         away_time |-> game.away_time
                       + (IF side = "HOME" THEN 0 ELSE timer_delta)]

\* Timer.turn_end on the game `game` after a turn of `elapsed` ticks.
turn_end(game, side, elapsed) ==
    LET main_time_used == IF elapsed > fixed_extra_time
                          THEN elapsed - fixed_extra_time ELSE 0
        timer_delta == time_increment_per_turn - main_time_used
    IN  [home_time |-> game.home_time
                       + (IF side = "HOME" THEN timer_delta ELSE 0),
         away_time |-> game.away_time
                       + (IF side = "HOME" THEN 0 ELSE timer_delta)]

\* A turn counter that passes the turn without creating a GameState row.
TurnCounter_iadd_without_row(arrangement, last_kill) ==
    /\ turn_number' = turn_number + 1
    /\ \E elapsed \in 0..MaxElapsed :
           LET times == turn_end(Game_init, current_turn, elapsed)
           IN  home_time' = times.home_time /\ away_time' = times.away_time
    /\ current_turn' = Side_invert(current_turn)
    /\ states' = states
    /\ last_kill_or_pawn_move' = last_kill

\* TurnCounter.__iadd__ when freeze_game has returned `arrangement`: the
\* turn number, the clock of the side on turn, the side to move, one
\* GameState row, game.save().
TurnCounter_iadd(arrangement, last_kill) ==
    /\ turn_number' = turn_number + 1
    /\ \E elapsed \in 0..MaxElapsed :
           LET times == turn_end(Game_init, current_turn, elapsed)
           IN  home_time' = times.home_time /\ away_time' = times.away_time
    /\ current_turn' = Side_invert(current_turn)
    /\ states' = Append(states, [turn_number |-> turn_number + 1,
                                 arrangement |-> arrangement])
    /\ last_kill_or_pawn_move' = last_kill

\* An end_game that gives a decisive game to the side on turn.
end_game_to_the_side_on_turn(reason, turn) ==
    /\ winner' = IF reason \in {"CHECKMATE", "TIME", "RESIGN"}
                 THEN turn ELSE "DRAW"
    /\ conclusion_type' = reason

\* events.games.end_game with the side to move `turn`: winner, conclusion
\* and game.save().  (helpers.send_game then reads context.games, which
\* EventContext does not have: the handler ends by raising, the sockets
\* are not disconnected.)
end_game(reason, turn) ==
    /\ winner' = IF reason \in {"CHECKMATE", "TIME", "RESIGN"}
                 THEN (IF turn = "HOME" THEN "AWAY" ELSE "HOME")
                 ELSE "DRAW"
    /\ conclusion_type' = reason

\* A move handler that ends the game as soon as the new position stands
\* three times in the GameState table.
move_concluding_on_repetition(side, data) ==
    /\ side = current_turn
    /\ \E made \in make_move(pieces, data) :
          /\ made.ret = T
          /\ pieces' = made.pieces
          /\ LET arrangement == freeze_game(made.pieces)
             IN  IF arrangement = R
                 THEN UNCHANGED <<states, positions, game_row>>
                 ELSE /\ TurnCounter_iadd(
                             arrangement,
                             IF made.irreversible THEN turn_number + 1
                             ELSE last_kill_or_pawn_move)
                      /\ positions' = Append(positions,
                                             legal_state(made.pieces,
                                                         current_turn'))
                      /\ UNCHANGED <<home_offering_draw, away_offering_draw>>
                      /\ IF "THREEFOLD_REPETITION"
                               \in game_is_over(states', turn_number')
                         THEN end_game("THREEFOLD_REPETITION", current_turn')
                         ELSE UNCHANGED <<winner, conclusion_type>>

\* events.games.move.  A request of the side that is not on turn ends with
\* RequestError 2312, a move make_move refuses with 2313, and one on which
\* validate_move raises ends by that exception: the game is left as it is.
\* After an accepted move `game.turn_number += 1` runs __iadd__ and rebinds
\* game.turn_number to what it returns, which is None, so
\* int(game.turn_number) on line 117 raises TypeError: the handler ends
\* there, after __iadd__ has saved the game and before the draw offers are
\* cleared and saved.  When freeze_game raises inside __iadd__ (a king is
\* missing) only the pieces make_move has written are kept.
move(side, data) ==
    /\ side = current_turn
    /\ \E made \in make_move(pieces, data) :
          /\ made.ret = T
          /\ pieces' = made.pieces
          /\ LET arrangement == freeze_game(made.pieces)
             IN  IF arrangement = R
                 THEN UNCHANGED <<states, positions, game_row>>
                 ELSE /\ TurnCounter_iadd(
                             arrangement,
                             IF made.irreversible THEN turn_number + 1
                             ELSE last_kill_or_pawn_move)
                      /\ positions' = Append(positions,
                                             legal_state(made.pieces,
                                                         current_turn'))
                      /\ UNCHANGED <<home_offering_draw, away_offering_draw,
                                     winner, conclusion_type>>

\* events.games.offer_draw
offer_draw(side) ==
    /\ home_offering_draw' = (side = "HOME" \/ home_offering_draw)
    /\ away_offering_draw' = (side = "AWAY" \/ away_offering_draw)
    /\ home_time' = main_thinking_time
    /\ away_time' = main_thinking_time
    /\ UNCHANGED <<pieces, states, positions, current_turn, turn_number,
                   last_kill_or_pawn_move, winner, conclusion_type>>

\* game.other_valid_draw_claim as a later request finds it.  Game has no
\* such field, and the one assignment, in the move handler, comes after
\* the statement the handler ends on: no request ever finds a claim right.
other_valid_draw_claim == "NONE"

\* A claim_draw that tests the draw offer of the claimer, not of the
\* opponent.
claim_accepted_on_own_offer(side, reason) ==
    /\ reason = "AGREED_DRAW"
    /\ ~(side = "HOME" /\ ~home_offering_draw)
    /\ ~(side = "AWAY" /\ ~away_offering_draw)

\* Whether events.games.claim_draw reaches end_game.  The tuple of the elif
\* names models.Conclusions, which models does not define: every reason
\* other than AGREED_DRAW raises AttributeError; an AGREED_DRAW the
\* opponent has not offered ends with RequestError 2322.
claim_accepted(side, reason) ==
    /\ reason = "AGREED_DRAW"
    /\ ~(side = "HOME" /\ ~away_offering_draw)
    /\ ~(side = "AWAY" /\ ~home_offering_draw)

\* events.games.claim_draw
claim_draw(side, reason) ==
    /\ claim_accepted(side, reason)
    /\ end_game(reason, current_turn)
    /\ home_time' = main_thinking_time
    /\ away_time' = main_thinking_time
    /\ UNCHANGED <<pieces, states, positions, current_turn, turn_number,
                   last_kill_or_pawn_move, home_offering_draw,
                   away_offering_draw>>

\* A resign handler that passes the turn whoever resigns.
resign_always_passing_turn(side) ==
    /\ freeze_game(pieces) # R
    /\ TurnCounter_iadd(freeze_game(pieces), last_kill_or_pawn_move)
    /\ end_game("RESIGN", Side_invert(current_turn))
    /\ positions' = Append(positions, legal_state(pieces, current_turn'))
    /\ UNCHANGED <<pieces, home_offering_draw, away_offering_draw>>

\* events.games.resign.  Off the resigner's turn the turn is passed first;
\* when freeze_game raises in __iadd__ the handler ends before end_game.
resign(side) ==
    IF current_turn # side
    THEN /\ freeze_game(pieces) # R
         /\ TurnCounter_iadd(freeze_game(pieces), last_kill_or_pawn_move)
         /\ end_game("RESIGN", Side_invert(current_turn))
         /\ positions' = Append(positions, legal_state(pieces, current_turn'))
         /\ UNCHANGED <<pieces, home_offering_draw, away_offering_draw>>
    ELSE /\ end_game("RESIGN", current_turn)
         /\ home_time' = main_thinking_time
         /\ away_time' = main_thinking_time
         /\ UNCHANGED <<pieces, states, positions, current_turn, turn_number,
                        last_kill_or_pawn_move, home_offering_draw,
                        away_offering_draw>>

\* A game that has just started: Game's field defaults, the board laid out,
\* no GameState row yet.
Init ==
    /\ pieces = layout_board
    /\ states = << >>
    /\ positions = << >>
    /\ current_turn = "HOME"
    /\ turn_number = 1
    /\ last_kill_or_pawn_move = 1
    /\ home_time = main_thinking_time
    /\ away_time = main_thinking_time
    /\ home_offering_draw = FALSE
    /\ away_offering_draw = FALSE
    /\ winner = "GAME_NOT_COMPLETE"
    /\ conclusion_type = "GAME_NOT_COMPLETE"

\* Every event of the game, moves up to turn MaxTurn.
Next ==
    \/ \E side \in Sides, data \in MoveRequests :
           turn_number < MaxTurn /\ move(side, data)
    \/ \E side \in Sides : offer_draw(side)
    \/ \E side \in Sides, reason \in Conclusions : claim_draw(side, reason)
    \/ \E side \in Sides :
           (side = current_turn \/ turn_number < MaxTurn) /\ resign(side)

Spec == Init /\ [][Next]_vars

\* The request names a piece of the player who sends it.
own_piece(side, data) ==
    get_piece(pieces, data.start_rank, data.start_file).side = side

\* Move events only, each player asking for moves of its own pieces, up to
\* turn MaxPlayTurn.
NextPlay ==
    \E side \in Sides, data \in MoveRequests :
        /\ turn_number < MaxPlayTurn
        /\ own_piece(side, data)
        /\ move(side, data)

SpecPlay == Init /\ [][NextPlay]_vars

\* Each side has a king on the Piece table P.
both_kings(P) ==
    \A side \in Sides : \E p \in P : p.side = side /\ p.piece_type = "KING"

\* Constructed positions, as a game whose board was laid out that way,
\* Home to move.
\* Rook ending: Home Ke1, Away Rd8 and Kh8.
\* Pawn ending: Home Kb5 and Pa7, Away Ka8.
\* Promotion: Home Ke1 and Ph7, Away Ka8.
Moved(piece) == [piece EXCEPT !.has_moved = TRUE]

Fixtures ==
    { {Moved(Piece(9, "KING", 0, 4, "HOME")),
       Moved(Piece(2, "ROOK", 7, 3, "AWAY")),
       Moved(Piece(10, "KING", 7, 7, "AWAY"))},
      {Moved(Piece(9, "KING", 4, 1, "HOME")),
       Moved(Piece(17, "PAWN", 6, 0, "HOME")),
       Moved(Piece(10, "KING", 7, 0, "AWAY"))},
      {Moved(Piece(9, "KING", 0, 4, "HOME")),
       Moved(Piece(24, "PAWN", 6, 7, "HOME")),
       Moved(Piece(10, "KING", 7, 0, "AWAY"))} }

InitFixture ==
    /\ pieces \in Fixtures
    /\ states = << >>
    /\ positions = << >>
    /\ current_turn = "HOME"
    /\ turn_number = 1
    /\ last_kill_or_pawn_move = 1
    /\ home_time = main_thinking_time
    /\ away_time = main_thinking_time
    /\ home_offering_draw = FALSE
    /\ away_offering_draw = FALSE
    /\ winner = "GAME_NOT_COMPLETE"
    /\ conclusion_type = "GAME_NOT_COMPLETE"

\* Move events of each player's own pieces to any square, with any
\* promotion field, up to turn MaxFixtureTurn and as long as both kings
\* stand.
NextFixture ==
    \E side \in Sides, piece \in pieces, rank \in 0..7, file \in 0..7,
       promotion \in PromotionRequests :
        /\ turn_number < MaxFixtureTurn
        /\ both_kings(pieces)
        /\ piece.side = side
        /\ move(side, promotion_data(
                          move_data(piece.rank, piece.file, rank, file),
                          promotion))

SpecFixture == InitFixture /\ [][NextFixture]_vars

\* The number of turns without a pawn move or a capture after which
\* game_is_over is to report FIFTY_MOVE_RULE.
FiftyMoves == 50

\* Lines of play, each player moving its own pieces from the starting
\* layout.
\* FoolsMate: 1.f3 e5 2.g4 Qh4.
\* KingHunt: 1.Nc3 a6 2.Nd5 Nc6 3.Nxc7 Nb4 4.Nxe8.
\* KnightsOutAndBack: 1.Nc3 Nc6 2.Nb1 Nb8, over and over; FiftyMoveLine
\* plays it up to the last two of FiftyMoves moves, which are Ng1-f3 and
\* Ng8-f6.
FoolsMate ==
    << move_data(1, 5, 2, 5), move_data(6, 4, 4, 4),
       move_data(1, 6, 3, 6), move_data(7, 3, 3, 7) >>

KingHunt ==
    << move_data(0, 1, 2, 2), move_data(6, 0, 5, 0), move_data(2, 2, 4, 3),
       move_data(7, 1, 5, 2), move_data(4, 3, 6, 2), move_data(5, 2, 3, 1),
       move_data(6, 2, 7, 4) >>

\* 1.Nc3 Nf6 2.Nb5 Ng8 3.Nd6 Nf6 4.Nxb7 Ng8 5.Nxd8: Home's knight takes
\* the queen beside Away's king, which has not moved.
QueenHunt ==
    << move_data(0, 1, 2, 2), move_data(7, 6, 5, 5), move_data(2, 2, 4, 1),
       move_data(5, 5, 7, 6), move_data(4, 1, 5, 3), move_data(7, 6, 5, 5),
       move_data(5, 3, 6, 1), move_data(5, 5, 7, 6), move_data(6, 1, 7, 3) >>

\* 1.Kf2 h5 2.Kg3 a6 3.Kh3: Home's king walks to h3, Away's pawn stands on
\* h5.
KingWalk ==
    << move_data(0, 4, 1, 5), move_data(6, 7, 4, 7), move_data(1, 5, 2, 6),
       move_data(6, 0, 5, 0), move_data(2, 6, 2, 7) >>

KnightsOutAndBack ==
    << move_data(0, 1, 2, 2), move_data(7, 1, 5, 2),
       move_data(2, 2, 0, 1), move_data(5, 2, 7, 1) >>

FiftyMoveLine ==
    [i \in 1..FiftyMoves |->
        IF i = FiftyMoves THEN move_data(7, 6, 5, 5)
        ELSE IF i = FiftyMoves - 1 THEN move_data(0, 6, 2, 5)
        ELSE KnightsOutAndBack[((i - 1) % Len(KnightsOutAndBack)) + 1]]

Lines == {FoolsMate, KingHunt, FiftyMoveLine}

\* The players follow the lines, the move of turn n being the n-th move of
\* a line, and either of them may resign as long as the game is not
\* concluded.
NextLine ==
    \/ \E line \in Lines :
           /\ turn_number <= Len(line)
           /\ move(current_turn, line[turn_number])
    \/ \E side \in Sides :
           conclusion_type = "GAME_NOT_COMPLETE" /\ resign(side)

SpecLine == Init /\ [][NextLine]_vars


\* The players follow QueenHunt and KingWalk, move by move, and either of
\* them may resign as long as the game is not concluded.
KingLines == {QueenHunt, KingWalk}

NextKingLines ==
    \/ \E line \in KingLines :
           /\ turn_number <= Len(line)
           /\ move(current_turn, line[turn_number])
    \/ \E side \in Sides :
           conclusion_type = "GAME_NOT_COMPLETE" /\ resign(side)

SpecKingLines == Init /\ [][NextKingLines]_vars

(***************************************************************************)
(* Properties                                                              *)
(***************************************************************************)

piece_of_id(P, id) == CHOOSE p \in P : p.id = id

\* C1: in every position and for each side, no move that possible_moves
\* returns leaves the king of that side attacked on the board as it is
\* after the move.
C1_possible_moves_keep_king_safe ==
    \A side \in Sides :
        \A m \in possible_moves(pieces, side).moves :
            ~king_is_attacked(
                execute_move(pieces, piece_of_id(pieces, m[1]), m[2], m[3],
                             "QUEEN"),
                side)

\* C2: after an applied move, when the side to move has no legal move
\* game_is_over yields CHECKMATE if its king is attacked and STALEMATE
\* otherwise; when it has a legal move game_is_over yields neither.
C2_terminal_evaluation ==
    (states # << >> /\ both_kings(pieces)) =>
        LET legal == legal_moves_for(pieces, current_turn)
            over == game_is_over(states, turn_number)
        IN  /\ legal = {} =>
                   over = {IF king_is_attacked(pieces, current_turn)
                           THEN "CHECKMATE" ELSE "STALEMATE"}
            /\ legal # {} => over \cap {"CHECKMATE", "STALEMATE"} = {}

\* C3: no event moves a piece that does not belong to the side whose turn
\* it is: a move request naming such a piece leaves the board as it is.
C3_only_the_side_on_turn_moves ==
    [][\A p \in pieces :
           (\E q \in pieces' : /\ q.id = p.id
                               /\ (q.rank # p.rank \/ q.file # p.file))
           => p.side = current_turn]_vars

\* C4: once a conclusion other than GAME_NOT_COMPLETE is recorded, no event
\* changes conclusion, winner, turn number, side to move, board or clocks.
C4_concluded_is_absorbing ==
    [][conclusion_type # "GAME_NOT_COMPLETE" =>
           UNCHANGED <<conclusion_type, winner, turn_number, current_turn,
                       pieces, home_time, away_time>>]_vars

\* C5: in every state reached from the starting layout by accepted moves
\* no two pieces stand on the same square and each side has exactly one
\* king.
C5_one_king_per_side_one_piece_per_square ==
    /\ \A p, q \in pieces : (p.rank = q.rank /\ p.file = q.file) => p = q
    /\ \A side \in Sides :
           Cardinality({p \in pieces : p.side = side /\ p.piece_type = "KING"}) = 1

\* How often the arrangement of the newest GameState row stands in the
\* GameState table.
occurrences(S) ==
    Cardinality({i \in DOMAIN S : S[i].arrangement = S[Len(S)].arrangement})

\* C6: after each applied move the outstanding draw claim is
\* THREEFOLD_REPETITION exactly when the key of the new position stands at
\* least three times in the position history.
C6_threefold_claim_right ==
    states # << >> =>
        ((other_valid_draw_claim = "THREEFOLD_REPETITION")
            <=> (occurrences(states) >= 3))

opponent_offering_draw(side) ==
    IF side = "HOME" THEN away_offering_draw ELSE home_offering_draw

\* C8: a claim_draw event concludes the game only if its reason is the
\* outstanding draw claim, or is AGREED_DRAW with the draw offer of the
\* claimer's opponent standing, and then as a draw with that reason; any
\* other claim leaves the game as it is.
C8_draw_claim_needs_a_right ==
    [][\A side \in Sides, reason \in Conclusions :
           claim_draw(side, reason) =>
               /\ \/ reason = other_valid_draw_claim
                  \/ reason = "AGREED_DRAW" /\ opponent_offering_draw(side)
               /\ winner' = "DRAW"
               /\ conclusion_type' = reason]_vars

\* Away has claimed the draw Home alone had offered.
C8_witness ==
    /\ conclusion_type = "AGREED_DRAW"
    /\ winner = "DRAW"
    /\ home_offering_draw
    /\ ~away_offering_draw

\* C9: a king moves two files along its rank only if it has not moved, the
\* rook of that wing has not moved, and neither the king's square, the
\* square it passes nor its destination is attacked.
C9_castling_preconditions ==
    [][\A king \in pieces, moved \in pieces' :
           (/\ king.piece_type = "KING"
            /\ moved.id = king.id
            /\ moved.rank = king.rank
            /\ Abs(moved.file - king.file) = 2)
           => LET rook == get_piece(pieces, king.rank, rook_start(moved.file))
                  walk == IF moved.file < king.file
                          THEN moved.file..king.file
                          ELSE king.file..moved.file
              IN  /\ ~king.has_moved
                  /\ rook # NoPiece
                  /\ ~rook.has_moved
                  /\ \A file \in walk :
                         ~square_attacked({p \in pieces : p.id # king.id},
                                          king.side, king.rank, file)]_vars

\* C10: after an applied move first_move_last_turn stands on no piece but
\* a pawn that advanced two squares in that move, so on at most one; a
\* pawn is taken en passant only in the move after its two-square advance;
\* and an enemy pawn beside the pawn that has just advanced two squares
\* may take it en passant.
C10_en_passant_window ==
    [][pieces' # pieces =>
        /\ \A q \in pieces' :
               q.first_move_last_turn =>
                   /\ q.piece_type = "PAWN"
                   /\ \E p \in pieces : /\ p.id = q.id /\ p.file = q.file
                                        /\ Abs(q.rank - p.rank) = 2
        /\ Cardinality({q \in pieces' : q.first_move_last_turn}) <= 1
        /\ \A p \in pieces, q \in pieces' :
               (/\ p.piece_type = "PAWN" /\ q.id = p.id /\ q.file # p.file
                /\ get_piece(pieces, q.rank, q.file) = NoPiece)
               => LET passed == get_piece(pieces, p.rank, q.file)
                  IN  /\ passed.first_move_last_turn
                      /\ passed.side # p.side
                      /\ \A r \in pieces' : r.id # passed.id
        /\ \A q \in pieces', a \in pieces' :
               (/\ q.first_move_last_turn
                /\ a.piece_type = "PAWN" /\ a.side # q.side
                /\ a.rank = q.rank /\ Abs(a.file - q.file) = 1)
               => validate_pawn_move(pieces', a, a.rank + forwards(a.side),
                                     q.file) = T]_vars

\* Home's c-pawn has taken Away's d-pawn en passant: it stands on d6 and
\* the d-pawn is off the board.
C10_witness ==
    /\ \E p \in pieces : /\ p.id = 21 /\ p.piece_type = "PAWN"
                         /\ p.rank = 5 /\ p.file = 3
    /\ \A q \in pieces : q.id # 24

\* C11: any two positions of the history that differ in piece placement,
\* side to move, castling rights or en-passant state have different
\* arrangements from freeze_game.
C11_different_positions_different_keys ==
    \A i, j \in DOMAIN states :
        positions[i] # positions[j]
            => states[i].arrangement # states[j].arrangement

\* The Piece table P with the ids of the pieces in the reverse order.
renumbered(P) == {[p EXCEPT !.id = 33 - p.id] : p \in P}

\* C12: positions of the history that agree in piece placement, side to
\* move, castling rights and en-passant state have equal arrangements,
\* whatever their turn numbers and clocks, and freeze_game gives the same
\* arrangement when the pieces carry other ids.
C12_equal_positions_equal_keys ==
    /\ \A i, j \in DOMAIN states :
           positions[i] = positions[j]
               => states[i].arrangement = states[j].arrangement
    /\ freeze_game(renumbered(pieces)) = freeze_game(pieces)

\* A position stands in the history a second time, at a later turn, and
\* with pieces that have moved since.
C12_witness ==
    \E i, j \in DOMAIN states :
        /\ i < j
        /\ positions[i] = positions[j]
        /\ states[i].turn_number < states[j].turn_number
        /\ \E p \in pieces : p.has_moved /\ p.rank \in {0, 7}

\* C13: on the starting layout possible_moves of Home ends without raising
\* and yields exactly 20 moves.
C13_twenty_moves_at_the_start ==
    pieces = layout_board =>
        /\ ~possible_moves(pieces, "HOME").raises
        /\ Cardinality(possible_moves(pieces, "HOME").moves) = 20

\* The Piece table after the first n moves of `line` from the starting
\* layout.
RECURSIVE played(_, _)
played(line, n) ==
    IF n = 0 THEN layout_board
    ELSE LET P == played(line, n - 1)
             data == line[n]
         IN  execute_move(P, get_piece(P, data.start_rank, data.start_file),
                          data.end_rank, data.end_file, data.promotion)

\* C14: each move of 1.f3 e5 2.g4 Qh4 is accepted on the position the
\* moves before it leave, and with the queen on h4 the game is concluded
\* as CHECKMATE, won by Away.
C14_fools_mate ==
    /\ \A n \in 1..Len(FoolsMate) :
           pieces = played(FoolsMate, n - 1)
               => {made.ret : made \in make_move(pieces, FoolsMate[n])} = {T}
    /\ pieces = played(FoolsMate, Len(FoolsMate))
           => conclusion_type = "CHECKMATE" /\ winner = "AWAY"

\* C15: as long as the game is not concluded either side can resign,
\* on its own turn or on the opponent's, and a resign event of a side
\* concludes the game as RESIGN with the other side as winner.
C15_resign_concludes ==
    conclusion_type = "GAME_NOT_COMPLETE" =>
        \A side \in Sides :
            /\ ENABLED resign(side)
            /\ ~ENABLED (/\ resign(side)
                         /\ ~(/\ conclusion_type' = "RESIGN"
                              /\ winner' = Side_invert(side)))

\* The remaining time of a side on the game record `game`.
remaining(game, side) ==
    IF side = "HOME" THEN game.home_time ELSE game.away_time

\* What record_turn_elapsed is to leave of `time` after a turn of
\* `elapsed` ticks (4.6).
charged(time, elapsed) ==
    time + time_increment_per_turn - Max(0, elapsed - fixed_extra_time)

\* C16: on every event that passes the turn, turn_end sets the remaining
\* time of the side given, whatever that time is, to the time plus
\* time_increment_per_turn less the part of the turn that exceeds
\* fixed_extra_time, so a turn no longer than fixed_extra_time gains
\* exactly the increment, and leaves the other side's time alone; and the
\* stored time of the side that was on turn is left charged in that way
\* for some length of the turn.
C16_turn_end_charges_the_excess ==
    [][turn_number' = turn_number + 1 =>
        LET before == [home_time |-> home_time, away_time |-> away_time]
            stored == [home_time |-> home_time', away_time |-> away_time']
        IN  /\ \A side \in Sides, elapsed \in 0..MaxElapsed,
                  time \in 0..(main_thinking_time + time_increment_per_turn) :
                   LET game == IF side = "HOME"
                               THEN [before EXCEPT !.home_time = time]
                               ELSE [before EXCEPT !.away_time = time]
                       after == turn_end(game, side, elapsed)
                   IN  /\ remaining(after, side) = charged(time, elapsed)
                       /\ elapsed <= fixed_extra_time
                              => remaining(after, side)
                                     = time + time_increment_per_turn
                       /\ remaining(after, Side_invert(side))
                              = remaining(before, Side_invert(side))
            /\ \E elapsed \in 0..MaxElapsed :
                   remaining(stored, current_turn)
                       = charged(remaining(before, current_turn), elapsed)]_vars

\* Two turns have passed and Away's, the second, took no longer than
\* fixed_extra_time: Away's time has grown by the increment.
C16_witness ==
    /\ turn_number = 3
    /\ current_turn = "HOME"
    /\ away_time = main_thinking_time + time_increment_per_turn

\* The step is an applied move: the board changes and the turn passes.
applied_move == pieces' # pieces /\ turn_number' = turn_number + 1

\* The applied move is a pawn move or a capture.
pawn_move_or_capture ==
    \/ Cardinality(pieces') < Cardinality(pieces)
    \/ \E p \in pieces, q \in pieces' :
           /\ p.piece_type = "PAWN" /\ q.id = p.id
           /\ (q.rank # p.rank \/ q.file # p.file)

\* C17: an applied pawn move or capture sets last_kill_or_pawn_move to the
\* new turn number and any other applied move leaves it as it is; and
\* after an applied move whose arrangement stands fewer than three times
\* in the history the outstanding draw claim is FIFTY_MOVE_RULE exactly
\* when the turn number is FiftyMoves or more past last_kill_or_pawn_move.
C17_fifty_move_right ==
    [][applied_move =>
        /\ last_kill_or_pawn_move' = IF pawn_move_or_capture
                                     THEN turn_number'
                                     ELSE last_kill_or_pawn_move
        /\ occurrences(states') < 3 =>
               ((other_valid_draw_claim = "FIFTY_MOVE_RULE")
                   <=> (turn_number' - last_kill_or_pawn_move' >= FiftyMoves))]_vars

\* C18: an applied move leaves neither side's draw offer standing, so an
\* AGREED_DRAW claim after it needs a new offer of the opponent.
C18_move_clears_draw_offers ==
    [][applied_move => ~home_offering_draw' /\ ~away_offering_draw']_vars

\* C19: on every position validate_move returns True or False for every
\* pair of squares of the board and never raises, and possible_moves of
\* either side ends without raising.
C19_validation_never_raises ==
    /\ \A start_rank \in 0..7, start_file \in 0..7,
          end_rank \in 0..7, end_file \in 0..7 :
           R \notin validate_move(pieces, start_rank, start_file,
                                  end_rank, end_file, FALSE, FALSE)
    /\ \A side \in Sides : ~possible_moves(pieces, side).raises

\* C20: validate_king_move accepts a move of the king to file 2 or 6 of
\* its rank, two files from where it stands, only if every square between
\* the king and the rook of that wing is empty: files 1, 2 and 3 on the
\* queen's wing, files 5 and 6 on the king's.
C20_castling_needs_empty_squares ==
    \A king \in pieces, file \in {2, 6} :
        (/\ king.piece_type = "KING"
         /\ Abs(file - king.file) = 2
         /\ T \in validate_king_move(pieces, king, king.rank, file, FALSE))
        => \A between \in (IF file = 2 THEN {1, 2, 3} ELSE {5, 6}) :
               get_piece(pieces, king.rank, between) = NoPiece

\* C21: a step in which a king goes two files along its rank puts it on
\* file 6 with the rook of that wing on file 5, or on file 2 with the rook
\* on file 3, in the same step: the corner square is left empty.
C21_castling_moves_king_and_rook ==
    [][\A king \in pieces, moved \in pieces' :
           (/\ king.piece_type = "KING"
            /\ moved.id = king.id
            /\ moved.rank = king.rank
            /\ Abs(moved.file - king.file) = 2)
           => /\ moved.file \in {2, 6}
              /\ get_piece(pieces', king.rank, rook_start(moved.file)) = NoPiece
              /\ LET rook == get_piece(pieces', king.rank, rook_end(moved.file))
                 IN  /\ rook # NoPiece
                     /\ rook.piece_type = "ROOK"
                     /\ rook.side = king.side
                     /\ rook.has_moved]_vars

\* Home has castled on the king's wing: king on g1, rook on f1, h1 empty.
C21_witness ==
    /\ \E king \in pieces : /\ king.id = 9 /\ king.piece_type = "KING"
                             /\ king.rank = 0 /\ king.file = 6
    /\ \E rook \in pieces : /\ rook.id = 15 /\ rook.piece_type = "ROOK"
                             /\ rook.rank = 0 /\ rook.file = 5
    /\ get_piece(pieces, 0, 7) = NoPiece

\* C22: no pawn ever stands on its far rank: a step that brings a pawn onto
\* its far rank turns it into a rook, knight, bishop or queen, and a move of
\* a pawn onto its far rank whose promotion field is empty, Pawn or King is
\* not applied.
pawn_on_far_rank(P) ==
    \E p \in P : p.piece_type = "PAWN" /\ p.rank = far_rank(p.side)

promotion_refused ==
    \A pawn \in pieces, file \in 0..7, promotion \in {"NONE", "PAWN", "KING"} :
        pawn.piece_type = "PAWN"
        => ~ENABLED move(pawn.side,
                         promotion_data(
                             move_data(pawn.rank, pawn.file,
                                       far_rank(pawn.side), file),
                             promotion))

DecisiveConclusions == {"CHECKMATE", "RESIGN", "TIME"}

DrawConclusions ==
    {"STALEMATE", "THREEFOLD_REPETITION", "FIFTY_MOVE_RULE", "AGREED_DRAW"}

C24_winner_follows_conclusion ==
    /\ [](/\ (winner = "GAME_NOT_COMPLETE")
              <=> (conclusion_type = "GAME_NOT_COMPLETE")
          /\ conclusion_type \in DrawConclusions => winner = "DRAW"
          /\ conclusion_type \in DecisiveConclusions => winner \in Sides)
    /\ [][(/\ <<winner, conclusion_type>>' # <<winner, conclusion_type>>
           /\ conclusion_type' \in DecisiveConclusions)
          => winner' = Side_invert(current_turn')]_vars

C24_witness ==
    /\ conclusion_type = "RESIGN" /\ winner = "AWAY"
    /\ current_turn = "HOME" /\ turn_number = 1
    /\ ~home_offering_draw /\ ~away_offering_draw

\* C25: a step that applies a move after which the side to move has no
\* legal move concludes the game as CHECKMATE or STALEMATE, whatever the
\* GameState table and the fifty-move count say.
C25_no_legal_move_concludes ==
    [][(/\ applied_move
        /\ both_kings(pieces')
        /\ legal_moves_for(pieces', current_turn') = {})
       => conclusion_type' \in {"CHECKMATE", "STALEMATE"}]_vars

\* The moves of a side's pieces to squares of the board that validate_move
\* accepts, as <<piece id, rank, file>>.
validated_moves(P, side) ==
    {<<piece.id, rank, file>> :
        <<piece, rank, file>> \in
            {m \in {p \in P : p.side = side} \X (0..7) \X (0..7) :
                validate_move(P, m[1].rank, m[1].file, m[2], m[3],
                              FALSE, FALSE) = {T}}}

\* C26: in every position and for each side possible_moves ends without
\* raising and yields exactly the moves of that side's pieces that
\* validate_move accepts.
C26_generator_agrees_with_validator ==
    \A side \in Sides :
        /\ ~possible_moves(pieces, side).raises
        /\ possible_moves(pieces, side).moves = validated_moves(pieces, side)

\* C27: with both kings on the board, hypothetical_check of a side without
\* a candidate move returns True exactly when some piece of the other side
\* has a geometry-legal move from the square it stands on to the square the
\* side's king stands on, and False otherwise.
C27_check_detection ==
    both_kings(pieces) =>
        \A side \in Sides :
            hypothetical_check(pieces, side, FALSE)
                = {IF king_is_attacked(pieces, side) THEN T ELSE F}

\* Chess.hypothetical_check(side, (piece, rank, file)): the candidate move
\* is stored in self.hypothetical_moves, which get_piece and the two
\* queries of the Piece table never read, so the answer is that of the
\* board as it stands.
hypothetical_check_of_move(P, side, piece, rank, file) ==
    hypothetical_check(P, side, FALSE)

\* C28: for every geometry-legal move of a piece that leaves both kings on
\* the board, hypothetical_check of the mover's side with that move as
\* candidate returns True exactly when the mover's king is attacked on the
\* board as it is after the move, and False otherwise.
C28_check_on_the_board_after_the_move ==
    \A piece \in pieces, rank \in 0..7, file \in 0..7 :
        LET after == execute_move(pieces, piece, rank, file, "QUEEN")
        IN  (is_legal_geometry(pieces, piece, rank, file) /\ both_kings(after))
            => hypothetical_check_of_move(pieces, piece.side, piece, rank, file)
                   = {IF king_is_attacked(after, piece.side) THEN T ELSE F}

\* C29: for a piece of any type, the validator of that type does not accept
\* a move to another square on which a piece of the mover's own side
\* stands.
C29_no_move_onto_own_piece ==
    \A piece \in pieces, own \in pieces :
        (own.side = piece.side /\ own.id # piece.id)
        => T \notin validators(pieces, piece, own.rank, own.file, FALSE)

\* The square lies on a line the piece moves along: a rank or file for a
\* rook, a diagonal for a bishop, either for a queen.
along_a_line(piece, rank, file) ==
    LET dr == rank - piece.rank
        df == file - piece.file
        straight == (dr = 0) # (df = 0)
        diagonal == Abs(dr) = Abs(df) /\ dr # 0
    IN  CASE piece.piece_type = "ROOK" -> straight
          [] piece.piece_type = "BISHOP" -> diagonal
          [] piece.piece_type = "QUEEN" -> straight \/ diagonal
          [] OTHER -> FALSE

\* C30: for a rook, bishop or queen and a square along one of its lines, the
\* validator accepts the move when every square between is empty and the
\* destination is empty or holds a piece of the other side, and rejects it
\* when a square between is occupied.
C30_sliding_moves ==
    \A piece \in pieces, rank \in 0..7, file \in 0..7 :
        along_a_line(piece, rank, file)
        => LET victim == get_piece(pieces, rank, file)
               accepted == validators(pieces, piece, rank, file, FALSE)
           IN  /\ (/\ path_clear(pieces, piece, rank, file)
                   /\ (victim = NoPiece \/ victim.side # piece.side))
                  => accepted = {T}
               /\ ~path_clear(pieces, piece, rank, file) => accepted = {F}

\* C31: for a rook and any other square of the board, validate_rook_move
\* rejects the move when the square lies neither on the rook's rank nor on
\* its file, and rejects a move along the rank or the file only when the
\* path test rejects it.
C31_rook_shape ==
    \A rook \in pieces, rank \in 0..7, file \in 0..7 :
        (rook.piece_type = "ROOK" /\ (rank # rook.rank \/ file # rook.file))
        => LET straight == rank = rook.rank \/ file = rook.file
               valid == validate_rook_move(pieces, rook, rank, file)
           IN  /\ ~straight => valid = F
               /\ (straight /\ valid = F)
                  => path_is_empty(pieces, rook, rank, file) = F

\* C32: validate_pawn_move accepts the advance of a pawn by two ranks along
\* its file exactly when the pawn has not moved and the square it passes
\* and the square it goes to are both empty, whatever stands elsewhere.
C32_pawn_double_step ==
    \A pawn \in pieces :
        LET rank == pawn.rank + 2 * forwards(pawn.side)
            passed == pawn.rank + forwards(pawn.side)
        IN  (pawn.piece_type = "PAWN" /\ on_board(rank, pawn.file))
            => validate_pawn_move(pieces, pawn, rank, pawn.file)
                   = (IF /\ ~pawn.has_moved
                         /\ get_piece(pieces, passed, pawn.file) = NoPiece
                         /\ get_piece(pieces, rank, pawn.file) = NoPiece
                      THEN T ELSE F)

\* C33: validate_king_move accepts every move of a king by one square, in
\* any of the eight directions, to a square of the board that does not hold
\* a piece of its own side, whether the king has moved or not, and rejects
\* every move of more than one square that is not a castling move.
C33_king_steps ==
    \A king \in pieces, rank \in 0..7, file \in 0..7 :
        LET distance == Max(Abs(rank - king.rank), Abs(file - king.file))
            victim == get_piece(pieces, rank, file)
            valid == validate_king_move(pieces, king, rank, file, FALSE)
        IN  king.piece_type = "KING"
            => /\ (/\ distance = 1
                   /\ (victim = NoPiece \/ victim.side # king.side))
                  => valid = {T}
               /\ (distance > 1 /\ ~is_castling(king, rank, file))
                  => valid = {F}

\* Chess.hypothetical_check(side) reaches its own first statement again:
\* the loop over the enemies calls validate_move on the piece it finds at
\* (enemy.file, enemy.rank), and when that piece is a king that has not
\* moved and the move asked for passes the castling tests,
\* validate_king_move calls hypothetical_check while hypothetical_moves is
\* set, which raises RuntimeError.
recursion_guard_reached(P, side) ==
    \E king \in P, enemy \in P :
        /\ king.side = side /\ king.piece_type = "KING"
        /\ enemy.side = Side_invert(side)
        /\ LET piece == get_piece(P, enemy.file, enemy.rank)
               rank == king.file
               file == king.rank
           IN  /\ piece # NoPiece
               /\ (piece.rank # rank \/ piece.file # file)
               /\ on_board(rank, file)
               /\ piece.piece_type = "KING"
               /\ rank = piece.rank /\ ~piece.has_moved
               /\ file \in {2, 6}
               /\ LET rook == get_piece(P, rank, rook_start(file))
                  IN  rook # NoPiece /\ ~rook.has_moved
               /\ \A empty_file \in empty_files(file) :
                      get_piece(P, rank, empty_file) # NoPiece

\* C34: on no position does a hypothetical_check of either side run into
\* the recursion guard: validate_move, possible_moves and game_is_over
\* never enter hypothetical_check while one is in flight.
C34_recursion_guard_not_reached ==
    \A side \in Sides : ~recursion_guard_reached(pieces, side)

\* C35: under move events alone Home is to move exactly at the odd turn
\* numbers, starting with turn 1, and every step that changes the board
\* passes the turn to the other side and raises the turn number by one.
C35_strict_alternation ==
    /\ []((current_turn = "HOME") <=> (turn_number % 2 = 1))
    /\ [][pieces' # pieces
          => /\ turn_number' = turn_number + 1
             /\ current_turn' = Side_invert(current_turn)]_vars

\* C36: the GameState table holds exactly one row for each turn number the
\* game has advanced to, 2 up to the current one, in the order of
\* creation; a step that advances the turn appends one row, a step that
\* does not appends none, and no row is removed or changed.
C36_one_snapshot_per_turn ==
    /\ [](/\ Len(states) = turn_number - 1
          /\ \A i \in DOMAIN states : states[i].turn_number = i + 1)
    /\ [][/\ Len(states') = Len(states)
                            + (IF turn_number' # turn_number THEN 1 ELSE 0)
           /\ SubSeq(states', 1, Len(states)) = states]_vars

C36_witness ==
    /\ turn_number = 3 /\ Len(states) = 2
    /\ states[1].arrangement # states[2].arrangement

\* What self.hypothetical_moves can hold when a call of
\* Chess.hypothetical_check(side) on the Piece table P, made while it was
\* None, is over: None after `return True` and `return False`, which
\* both reset it first, and the candidate moves after an exception, which
\* leaves the method between the assignment on entry and the resets.
hypothetical_moves_after(P, side) ==
    {IF outcome = R THEN "MOVES" ELSE "NONE" :
        outcome \in hypothetical_check(P, side, FALSE)}

\* C37: on every position, once a hypothetical_check of either side is
\* over, however it ended, hypothetical_moves is None again.
C37_guard_released ==
    \A side \in Sides : hypothetical_moves_after(pieces, side) = {"NONE"}

\* C38: on every position every move possible_moves yields for either side
\* goes to a square whose rank and file are both in 0..7.
C38_yielded_moves_on_the_board ==
    \A side \in Sides :
        \A m \in possible_moves(pieces, side).moves :
            m[2] \in 0..7 /\ m[3] \in 0..7

C38_witness ==
    \E king \in pieces :
        /\ king.piece_type = "KING" /\ king.rank = 0
        /\ <<king.id, 1, king.file>> \in possible_moves(pieces, king.side).moves

\* C39: a step that passes the turn charges the turn to the clock of the
\* side that was on turn, which gains time_increment_per_turn less the
\* part of some elapsed time above fixed_extra_time, and leaves the clock
\* of the other side as it was.
C39_turn_charged_to_the_mover ==
    [][turn_number' = turn_number + 1
       => LET game == [home_time |-> home_time, away_time |-> away_time]
              after == [home_time |-> home_time', away_time |-> away_time']
              other == Side_invert(current_turn)
          IN  /\ remaining(after, other) = remaining(game, other)
              /\ \E elapsed \in 0..MaxElapsed :
                     remaining(after, current_turn)
                         = charged(remaining(game, current_turn), elapsed)]_vars

====
